---- MODULE Spec2Model ----
(***************************************************************************)
(* A model of the CHIP-8 interpreter of src/main.c: the State structure,   *)
(* the ROM loader, the call stack kept inside the memory array, the sprite *)
(* blitter, the decimal-digit instruction, state_step and the main loop    *)
(* that drives it.                                                         *)
(*                                                                         *)
(* Representation.  uint8_t and uint16_t values are naturals reduced       *)
(* modulo 2^8 and 2^16 where the C code stores them.  A uint64_t display   *)
(* row is the set of its 1-bits (bit numbers 0..63), so that XOR is the    *)
(* symmetric difference, AND the intersection, and a shift moves every bit *)
(* number and drops those that leave 0..63.  The host is little-endian     *)
(* (the code targets the MSVC runtime: fopen_s), which fixes the byte      *)
(* order of the memcpy in state_push_to_stack.                             *)
(*                                                                         *)
(* The 4096-byte array memory[] is held as the function from the addresses *)
(* of its nonzero bytes to those bytes: an address of 0..4095 outside the  *)
(* domain holds 0, as calloc left it.  Every store keeps that form, so two *)
(* model states are equal exactly when the arrays are.  An access at an    *)
(* address outside 0..4095 is undefined behaviour: a read yields a byte    *)
(* chosen by the environment, a write leaves the array unchanged.          *)
(***************************************************************************)
EXTENDS Integers, Sequences, FiniteSets, TLC

\* ------------------------------------------------------------ constants

MEMORY_SIZE == 4096

PROGRAM_START == 512

STACK_START == 82

FONT_START == 80

\* The value of state->keycode that signifies that no key is pressed.
NO_KEY == 16

VIDEO_ROWS == 32

FONTS ==
    << 240, 144, 144, 144, 240,
        32,  96,  32,  32, 112,
       240,  16, 240, 128, 240,
       240,  16, 240,  16, 240,
       144, 144, 240,  16,  16,
       240, 128, 240,  16, 240,
       240, 128, 240, 144, 240,
       240,  16,  32,  64,  64,
       240, 144, 240, 144, 240,
       240, 144, 240,  16, 240,
       240, 144, 240, 144, 144,
       224, 144, 224, 144, 224,
       240, 128, 128, 128, 240,
       224, 144, 144, 144, 224,
       240, 128, 240, 128, 240,
       240, 128, 240, 128, 128 >>

\* ------------------------------------------------- fixed-width arithmetic

U8(n) == n % 256

U16(n) == n % 65536

\* The set of 1-bits of the byte v.
Bits8(v) == { i \in 0..7 : (v \div (2 ^ i)) % 2 = 1 }

Bit8(S, i) == IF i \in S THEN 2 ^ i ELSE 0

\* The byte whose 1-bits are S.
Byte8(S) ==
    Bit8(S, 0) + Bit8(S, 1) + Bit8(S, 2) + Bit8(S, 3)
        + Bit8(S, 4) + Bit8(S, 5) + Bit8(S, 6) + Bit8(S, 7)

BitOr(a, b) == Byte8(Bits8(a) \cup Bits8(b))

BitAnd(a, b) == Byte8(Bits8(a) \cap Bits8(b))

BitXor(a, b) == Byte8((Bits8(a) \cup Bits8(b)) \ (Bits8(a) \cap Bits8(b)))

\* uint64_t shifts and XOR on rows held as sets of bit numbers.
Shl64(S, k) == { i + k : i \in S } \cap (0..63)

Shr64(S, k) == { i - k : i \in S } \cap (0..63)

\* A row updated with |= in place of ^=.
or_into_row(A, B) == A \cup B

Xor64(A, B) == (A \cup B) \ (A \cap B)

\* ------------------------------------------------------------ memory

\* The byte at address a of the array, for a in 0..MEMORY_SIZE - 1.
Mem(mem, a) == IF a \in DOMAIN mem THEN mem[a] ELSE 0

\* The array f without its zero bytes: the form above.
Pack(f) == [a \in { b \in DOMAIN f : f[b] # 0 } |-> f[a]]

\* memory[a] as the C code reads it; junk is what an out-of-bounds read yields.
MemRead(mem, a, junk) == IF a \in 0..(MEMORY_SIZE - 1) THEN Mem(mem, a) ELSE junk

\* memory[a] = v; a store outside the array does not change the array.
MemWrite(mem, a, v) ==
    IF a \notin 0..(MEMORY_SIZE - 1) THEN mem
    ELSE IF v # 0
         THEN IF a \in DOMAIN mem THEN [mem EXCEPT ![a] = v] ELSE (a :> v) @@ mem
         ELSE IF a \in DOMAIN mem THEN [b \in DOMAIN mem \ {a} |-> mem[b]] ELSE mem

\* ------------------------------------------------------------ state_init

state_init ==
    [ memory |-> Pack([a \in FONT_START..(FONT_START + Len(FONTS) - 1) |->
                          FONTS[a - FONT_START + 1]]),
      regs_v |-> [r \in 0..15 |-> 0],
      delay_timer |-> 0,
      sound_timer |-> 0,
      keycode |-> NO_KEY,
      pc |-> PROGRAM_START,
      sp |-> STACK_START,
      reg_i |-> 0,
      end_of_program |-> FALSE,
      waiting_for_key |-> FALSE,
      video_buffer |-> [y \in 0..(VIDEO_ROWS - 1) |-> {}] ]

\* ------------------------------------------------------------ ROM loading

\* read_rom: a ROM file is [readable, bytes]; fopen_s fails on a file that is
\* not readable.  The result is <<ok, data>>.
read_rom(file) ==
    IF ~file.readable THEN <<FALSE, <<>>>>
    ELSE IF Len(file.bytes) <= 0 THEN <<FALSE, <<>>>>
    ELSE IF Len(file.bytes) >= MEMORY_SIZE - PROGRAM_START THEN <<FALSE, <<>>>>
    ELSE <<TRUE, file.bytes>>

\* load_rom: <<ok, state>>.
load_rom(s, file) ==
    LET r == read_rom(file)
        data == r[2]
    IN  IF ~r[1] THEN <<FALSE, s>>
        ELSE <<TRUE,
               [s EXCEPT !.memory =
                   LET dst == PROGRAM_START..(PROGRAM_START + Len(data) - 1)
                   IN  Pack([a \in DOMAIN s.memory \cup dst |->
                                IF a \in dst THEN data[a - PROGRAM_START + 1]
                                ELSE s.memory[a]])]>>

\* ------------------------------------------------------------ call stack

\* A push that copies the address without swapping its bytes.
push_without_flip(s, value) ==
    LET m1 == MemWrite(s.memory, s.sp, value % 256)
        m2 == MemWrite(m1, s.sp + 1, value \div 256)
    IN  [s EXCEPT !.memory = m2, !.sp = U16(s.sp + 2)]

\* The value is byte-swapped and copied by a little-endian host: the high
\* byte of the address lands at memory[sp], the low byte at memory[sp + 1].
state_push_to_stack(s, value) ==
    LET flipped == U16((value * 256) + (value \div 256))
        m1 == MemWrite(s.memory, s.sp, flipped % 256)
        m2 == MemWrite(m1, s.sp + 1, flipped \div 256)
    IN  [s EXCEPT !.memory = m2, !.sp = U16(s.sp + 2)]

\* <<state, address>>.
state_pop_from_stack(s, junk) ==
    LET sp2 == U16(s.sp + 65536 - 2)
        address == MemRead(s.memory, sp2, junk) * 256
                       + MemRead(s.memory, sp2 + 1, junk)
        m1 == MemWrite(s.memory, sp2, 0)
        m2 == MemWrite(m1, sp2 + 1, 0)
    IN  <<[s EXCEPT !.memory = m2, !.sp = sp2], address>>

\* ------------------------------------------------------------ instructions

\* A clear that stops one row short of the end of the buffer.
clear_video_but_last_row(s) ==
    [s EXCEPT !.video_buffer =
        [y \in 0..(VIDEO_ROWS - 1) |-> IF y < VIDEO_ROWS - 1 THEN {} ELSE @[y]]]

instruction_clear_video(s) ==
    [s EXCEPT !.video_buffer = [y \in 0..(VIDEO_ROWS - 1) |-> {}]]

\* The loop with rows past the bottom edge wrapped to the top, not clipped.
RECURSIVE draw_rows_wrapping(_, _, _, _, _, _)
draw_rows_wrapping(s, start_x, start_y, height, row, junk) ==
    IF ~(row < height) THEN s
    ELSE LET y == (start_y + row) % 32
             byte == MemRead(s.memory, s.reg_i + row, junk)
             sprite_mask == Shr64(Shl64(Bits8(byte), 55), start_x)
             row_data == s.video_buffer[y]
             s1 == [s EXCEPT !.video_buffer[y] = Xor64(row_data, sprite_mask)]
             s2 == IF (row_data \cap sprite_mask) # {}
                   THEN [s1 EXCEPT !.regs_v[15] = 1] ELSE s1
         IN  draw_rows_wrapping(s2, start_x, start_y, height, row + 1, junk)

\* The body of the for loop of instruction_draw_sprite, from row on.
RECURSIVE draw_rows(_, _, _, _, _, _)
draw_rows(s, start_x, start_y, height, row, junk) ==
    IF ~(row < height) THEN s
    ELSE LET y == U8(start_y + row) IN
         IF y >= 32 THEN s
         ELSE LET byte == MemRead(s.memory, s.reg_i + row, junk)
                  sprite_mask == Shr64(Shl64(Bits8(byte), 55), start_x)
                  row_data == s.video_buffer[y]
                  s1 == [s EXCEPT !.video_buffer[y] = Xor64(row_data, sprite_mask)]
                  s2 == IF (row_data \cap sprite_mask) # {}
                        THEN [s1 EXCEPT !.regs_v[15] = 1] ELSE s1
              IN  draw_rows(s2, start_x, start_y, height, row + 1, junk)

instruction_draw_sprite(s, regx, regy, height, junk) ==
    LET start_x == s.regs_v[regx] % 64
        start_y == s.regs_v[regy] % 32
        s0 == [s EXCEPT !.regs_v[15] = 0]
    IN  draw_rows(s0, start_x, start_y, height, 0, junk)

\* The digits with the tens digit not reduced modulo 10.
decimal_digits_unreduced(s, value) ==
    LET m1 == MemWrite(s.memory, s.reg_i, value \div 100)
        m2 == MemWrite(m1, s.reg_i + 1, value \div 10)
        m3 == MemWrite(m2, s.reg_i + 2, value % 10)
    IN  [s EXCEPT !.memory = m3]

instruction_decimal_digits(s, value) ==
    LET m1 == MemWrite(s.memory, s.reg_i, value \div 100)
        m2 == MemWrite(m1, s.reg_i + 1, (value \div 10) % 10)
        m3 == MemWrite(m2, s.reg_i + 2, value % 10)
    IN  [s EXCEPT !.memory = m3]

\* ------------------------------------------------------------ state_step

\* The fields of a 16-bit opcode.
nibble1(opcode) == opcode \div 4096

nibble2(opcode) == (opcode \div 256) % 16

nibble3(opcode) == (opcode \div 16) % 16

nibble4(opcode) == opcode % 16

imm_nn(opcode) == opcode % 256

imm_nnn(opcode) == opcode % 4096

\* What one case of the switch leaves behind: the state and should_step.
Res(st, step) == [st |-> st, should_step |-> step]

\* A skip that sets pc and forgets to clear should_step.
skip_and_step(s, cond) ==
    IF cond THEN Res([s EXCEPT !.pc = U16(s.pc + 4)], TRUE) ELSE Res(s, TRUE)

\* A taken skip: pc += 4 and should_step = false.
Skip(s, cond) ==
    IF cond THEN Res([s EXCEPT !.pc = U16(s.pc + 4)], FALSE) ELSE Res(s, TRUE)

\* case 0x8: the register-to-register family, selected by nibble4.  The flag
\* register is assigned first and the destination register second, both in
\* int arithmetic on the promoted uint8_t operands.
alu_8xy4(s, x, y) ==
    LET s1 == [s EXCEPT !.regs_v[15] =
                  IF s.regs_v[x] > s.regs_v[x] + s.regs_v[y] THEN 1 ELSE 0]
    IN  [s1 EXCEPT !.regs_v[x] = U8(s1.regs_v[x] + s1.regs_v[y])]

alu_8xy5(s, x, y) ==
    LET s1 == [s EXCEPT !.regs_v[15] =
                  IF s.regs_v[x] < s.regs_v[x] - s.regs_v[y] THEN 1 ELSE 0]
    IN  [s1 EXCEPT !.regs_v[x] = U8(256 + s1.regs_v[x] - s1.regs_v[y])]

alu_8xy7(s, x, y) ==
    LET s1 == [s EXCEPT !.regs_v[15] =
                  IF s.regs_v[y] < s.regs_v[y] - s.regs_v[x] THEN 1 ELSE 0]
    IN  [s1 EXCEPT !.regs_v[x] = U8(256 + s1.regs_v[y] - s1.regs_v[x])]

alu_8xy6(s, x) ==
    LET s1 == [s EXCEPT !.regs_v[15] = s.regs_v[x] % 2]
    IN  [s1 EXCEPT !.regs_v[x] = s1.regs_v[x] \div 2]

alu_8xyE(s, x) ==
    LET s1 == [s EXCEPT !.regs_v[15] = s.regs_v[x] \div 128]
    IN  [s1 EXCEPT !.regs_v[x] = U8(s1.regs_v[x] * 2)]

alu(s, x, y, n) ==
    CASE n = 0 -> [s EXCEPT !.regs_v[x] = s.regs_v[y]]
      [] n = 1 -> [s EXCEPT !.regs_v[x] = BitOr(s.regs_v[x], s.regs_v[y])]
      [] n = 2 -> [s EXCEPT !.regs_v[x] = BitAnd(s.regs_v[x], s.regs_v[y])]
      [] n = 3 -> [s EXCEPT !.regs_v[x] = BitXor(s.regs_v[x], s.regs_v[y])]
      [] n = 4 -> alu_8xy4(s, x, y)
      [] n = 5 -> alu_8xy5(s, x, y)
      [] n = 6 -> alu_8xy6(s, x)
      [] n = 7 -> alu_8xy7(s, x, y)
      [] n = 14 -> alu_8xyE(s, x)
      [] OTHER -> s

\* case 0xE: the two key-skip instructions, selected by nn.
key_skip(s, x, nn) ==
    CASE nn = 158 -> Skip(s, s.keycode = s.regs_v[x])
      [] nn = 161 -> Skip(s, s.keycode # s.regs_v[x])
      [] OTHER -> Res(s, TRUE)

\* An Fx0A that does not block when no key is pressed.
wait_key_no_block(s, x) ==
    IF s.keycode # 16 THEN Res([s EXCEPT !.regs_v[x] = s.keycode], TRUE)
    ELSE Res(s, TRUE)

\* case 0x0A: wait for a key.
wait_key(s, x) ==
    IF s.keycode # 16 THEN Res([s EXCEPT !.regs_v[x] = s.keycode], TRUE)
    ELSE Res(s, FALSE)

font_address(s, x) == [s EXCEPT !.reg_i = FONT_START + s.regs_v[x]]

\* memcpy(&memory[reg_i], regs_v, x + 1)
store_regs(s, x) ==
    [s EXCEPT !.memory =
        LET dst == (s.reg_i..(s.reg_i + x)) \cap (0..(MEMORY_SIZE - 1))
        IN  Pack([a \in DOMAIN s.memory \cup dst |->
                     IF a \in dst THEN s.regs_v[a - s.reg_i] ELSE s.memory[a]])]

\* memcpy(regs_v, &memory[reg_i], x + 1)
load_regs(s, x, junk) ==
    [s EXCEPT !.regs_v =
        [r \in 0..15 |->
            IF r <= x THEN MemRead(s.memory, s.reg_i + r, junk)
            ELSE s.regs_v[r]]]

\* case 0xF: selected by nn.
misc(s, x, nn, junk) ==
    CASE nn = 7 -> Res([s EXCEPT !.regs_v[x] = s.delay_timer], TRUE)
      [] nn = 10 -> wait_key(s, x)
      [] nn = 21 -> Res([s EXCEPT !.delay_timer = s.regs_v[x]], TRUE)
      [] nn = 24 -> Res([s EXCEPT !.sound_timer = s.regs_v[x]], TRUE)
      [] nn = 30 -> Res([s EXCEPT !.reg_i = U16(s.reg_i + s.regs_v[x])], TRUE)
      [] nn = 41 -> Res(font_address(s, x), TRUE)
      [] nn = 51 -> Res(instruction_decimal_digits(s, s.regs_v[x]), TRUE)
      [] nn = 85 -> Res(store_regs(s, x), TRUE)
      [] nn = 101 -> Res(load_regs(s, x, junk), TRUE)
      [] OTHER -> Res(s, TRUE)

\* case 0x0 with 0nnn carried out as a jump to the machine code at nnn.
sys_jumps_to_machine_code(s, opcode, junk) ==
    CASE opcode = 224 -> Res(instruction_clear_video(s), TRUE)
      [] opcode = 238 ->
            LET p == state_pop_from_stack(s, junk)
            IN  Res([p[1] EXCEPT !.pc = p[2]], FALSE)
      [] OTHER -> Res([s EXCEPT !.pc = imm_nnn(opcode)], FALSE)

\* case 0x0: selected by the whole opcode.
sys(s, opcode, junk) ==
    CASE opcode = 224 -> Res(instruction_clear_video(s), TRUE)
      [] opcode = 238 ->
            LET p == state_pop_from_stack(s, junk)
            IN  Res([p[1] EXCEPT !.pc = p[2]], FALSE)
      [] OTHER -> Res(s, TRUE)

call(s, nnn) ==
    LET s1 == state_push_to_stack(s, U16(s.pc + 2))
    IN  Res([s1 EXCEPT !.pc = nnn], FALSE)

\* The opcode at pc, big-endian; pc + 1 is inside the array when this is used.
Opcode(s) == Mem(s.memory, s.pc) * 256 + Mem(s.memory, s.pc + 1)

\* The switch on nibble1.  rnd is the low byte of rand(), junk the byte an
\* out-of-bounds read yields.
execute(s, opcode, rnd, junk) ==
    LET x == nibble2(opcode)
        y == nibble3(opcode)
        nn == imm_nn(opcode)
        nnn == imm_nnn(opcode)
    IN  CASE nibble1(opcode) = 0 -> sys(s, opcode, junk)
          [] nibble1(opcode) = 1 -> Res([s EXCEPT !.pc = nnn], FALSE)
          [] nibble1(opcode) = 2 -> call(s, nnn)
          [] nibble1(opcode) = 3 -> Skip(s, s.regs_v[x] = nn)
          [] nibble1(opcode) = 4 -> Skip(s, s.regs_v[x] # nn)
          [] nibble1(opcode) = 5 -> Skip(s, s.regs_v[x] = s.regs_v[y])
          [] nibble1(opcode) = 6 -> Res([s EXCEPT !.regs_v[x] = nn], TRUE)
          [] nibble1(opcode) = 7 ->
                Res([s EXCEPT !.regs_v[x] = U8(s.regs_v[x] + nn)], TRUE)
          [] nibble1(opcode) = 8 -> Res(alu(s, x, y, nibble4(opcode)), TRUE)
          [] nibble1(opcode) = 9 -> Skip(s, s.regs_v[x] # s.regs_v[y])
          [] nibble1(opcode) = 10 -> Res([s EXCEPT !.reg_i = nnn], TRUE)
          [] nibble1(opcode) = 12 ->
                Res([s EXCEPT !.regs_v[x] = BitAnd(rnd, nn)], TRUE)
          [] nibble1(opcode) = 13 ->
                Res(instruction_draw_sprite(s, x, y, nibble4(opcode), junk), TRUE)
          [] nibble1(opcode) = 14 -> key_skip(s, x, nn)
          [] nibble1(opcode) = 15 -> misc(s, x, nn, junk)
          [] OTHER -> Res(s, TRUE)

\* The end-of-program test of state_step.  The statement in its branch,
\* `state->end_of_program;', evaluates the flag and assigns nothing.
end_of_memory(s) == s

\* A step that adds 2 to pc whatever the instruction did.
step_ignoring_should_step(s, rnd, junk) ==
    IF s.pc >= MEMORY_SIZE - 1 THEN end_of_memory(s)
    ELSE LET r == execute(s, Opcode(s), rnd, junk)
         IN  [r.st EXCEPT !.pc = U16(r.st.pc + 2)]

state_step(s, rnd, junk) ==
    IF s.pc >= MEMORY_SIZE - 1 THEN end_of_memory(s)
    ELSE LET r == execute(s, Opcode(s), rnd, junk)
         IN  IF r.should_step THEN [r.st EXCEPT !.pc = U16(r.st.pc + 2)]
             ELSE r.st

\* The addresses of memory[] that state_step reads or writes in state s.
accesses(s) ==
    IF s.pc >= MEMORY_SIZE - 1 THEN {}
    ELSE LET opcode == Opcode(s)
             start_y == s.regs_v[nibble3(opcode)] % 32
             sp2 == U16(s.sp + 65536 - 2)
         IN  {s.pc, s.pc + 1} \cup
             (CASE opcode = 238 -> {sp2, sp2 + 1}
                [] nibble1(opcode) = 2 -> {s.sp, s.sp + 1}
                [] nibble1(opcode) = 13 ->
                      { s.reg_i + row :
                          row \in { r \in 0..15 : r < nibble4(opcode) /\ start_y + r < 32 } }
                [] nibble1(opcode) = 15 /\ imm_nn(opcode) = 51 ->
                      {s.reg_i, s.reg_i + 1, s.reg_i + 2}
                [] nibble1(opcode) = 15 /\ imm_nn(opcode) \in {85, 101} ->
                      { s.reg_i + k : k \in 0..nibble2(opcode) }
                [] OTHER -> {})

\* ------------------------------------------------------------ inputs

\* get_chip8_keycode_from_sdl, on the SDL key symbols named by their key.
get_chip8_keycode_from_sdl(sym) ==
    CASE sym = "1" -> 1  [] sym = "2" -> 2  [] sym = "3" -> 3  [] sym = "4" -> 12
      [] sym = "q" -> 4  [] sym = "w" -> 5  [] sym = "e" -> 6  [] sym = "r" -> 13
      [] sym = "a" -> 7  [] sym = "s" -> 8  [] sym = "d" -> 9  [] sym = "f" -> 14
      [] sym = "z" -> 10 [] sym = "x" -> 0  [] sym = "c" -> 11 [] sym = "v" -> 15
      [] OTHER -> 16

\* The keys the user presses in the model.
KeyPresses == {"x", "1", "v", "p"}

\* The low bytes rand() returns in the model.
RandBytes == {0, 165, 255}

\* The bytes a read outside memory[] yields in the model.
JunkBytes == {0, 255}

\* The inputs a step depends on: rand() matters to Cxnn alone, the byte read
\* outside the array to a step that reads there.
RandInputs(s) ==
    IF s.pc < MEMORY_SIZE - 1 /\ nibble1(Opcode(s)) = 12 THEN RandBytes ELSE {0}

JunkInputs(s) ==
    IF accesses(s) \subseteq 0..(MEMORY_SIZE - 1) THEN {0} ELSE JunkBytes

\* ------------------------------------------------------------ ROM files

\* The bytes of a program given as its 16-bit opcodes, big-endian.
Asm(ops) ==
    [i \in 1..(2 * Len(ops)) |->
        IF i % 2 = 1 THEN ops[(i + 1) \div 2] \div 256 ELSE ops[i \div 2] % 256]

\* The address of the i-th opcode of a loaded program.
At(i) == PROGRAM_START + 2 * (i - 1)

CLS == 224

RET == 238

JP(nnn) == 4096 + nnn

CALL(nnn) == 8192 + nnn

LD(x, nn) == 24576 + 256 * x + nn

LDI(nnn) == 40960 + nnn

DRW(x, y, n) == 53248 + 256 * x + 16 * y + n

\* Jump to the last byte of memory, where state_step stops fetching.
HALT == JP(MEMORY_SIZE - 1)

OperandValues == {0, 1, 16, 127, 128, 255}

OperandRegs == {0, 1, 15}

\* Vx := a; Vy := b; one register-register instruction or register skip.
BinaryOps ==
    { 32768 + n : n \in {0, 1, 2, 3, 4, 5, 6, 7, 8, 14} } \cup {20480, 36864}

BinaryRoms ==
    { Asm(<<LD(x, a), LD(y, b), op + 256 * x + 16 * y, HALT, HALT>>) :
        x \in OperandRegs, y \in OperandRegs,
        a \in OperandValues, b \in OperandValues, op \in BinaryOps }

\* Vx := a; one instruction with the immediate nn = b (3xnn 4xnn 7xnn Bxnn Cxnn).
ImmediateOps == {12288, 16384, 28672, 45056, 49152}

ImmediateRoms ==
    { Asm(<<LD(x, a), op + 256 * x + b, HALT, HALT>>) :
        x \in OperandRegs, a \in OperandValues, b \in OperandValues,
        op \in ImmediateOps }

\* Vx := a; one instruction of the 0xE or 0xF family
\* (Ex9E ExA1 ExFF Fx07 Fx0A Fx1E Fx29 FxFF).
UnaryOps == {57502, 57505, 57599, 61447, 61450, 61470, 61481, 61695}

UnaryRoms ==
    { Asm(<<LD(x, a), op + 256 * x, HALT, HALT>>) :
        x \in OperandRegs, a \in OperandValues \cup (0..15), op \in UnaryOps }

\* Calls nested depth deep: the main program calls f1 and halts, f1 calls
\* f2 and returns, ..., the last one returns.
MaxCallDepth == 3

NestedCalls(depth) ==
    [i \in 1..(2 * depth + 1) |->
        IF i = 2 THEN HALT
        ELSE IF i = 2 * depth + 1 THEN RET
        ELSE IF i % 2 = 1 THEN CALL(At(i + 2))
        ELSE RET]

\* A return with nothing on the stack; a subroutine that calls itself; a
\* jump to the last opcode slot of memory, to its last byte, and into the
\* zeroed memory near its end.
StackRoms ==
    { Asm(NestedCalls(d)) : d \in 1..MaxCallDepth }
        \cup { Asm(<<RET>>), Asm(<<CALL(At(1))>>), Asm(<<LD(0, 5), CALL(At(2))>>) }

EndRoms ==
    { Asm(<<HALT>>), Asm(<<JP(MEMORY_SIZE - 2)>>), Asm(<<JP(MEMORY_SIZE - 16)>>) }

\* V0 := 5, then a jump back to the start of the program.
LoopRom == Asm(<<LD(0, 5), JP(At(1))>>)

\* V0 := vx; V1 := vy; I := the sprite; draw it twice; the sprite's bytes.
MaxHeight == 2

SpriteColumns == {0, 60, 63, 124}

SpriteRows == {0, 31, 63}

SpriteBytes == {255, 240, 129, 15}

DrawRoms ==
    { Asm(<<LD(0, vx), LD(1, vy), LDI(At(7)), DRW(0, 1, n), DRW(0, 1, n), HALT,
            256 * b + 255>>) :
        vx \in SpriteColumns, vy \in SpriteRows, n \in 0..MaxHeight,
        b \in SpriteBytes }

\* Draw one sprite; draw a second one twice over it; clear the display; load
\* a register; draw again.  The two sprites are the bytes after the program.
OverdrawRoms ==
    { Asm(<<LD(0, vx), LD(1, vy), LDI(At(12)), DRW(0, 1, 1), LDI(At(12) + 1),
            DRW(0, 1, 1), DRW(0, 1, 1), CLS, LD(2, 7), DRW(0, 1, 1), HALT,
            256 * a + b>>) :
        vx \in {0, 60}, vy \in {0, 31}, a \in SpriteBytes, b \in SpriteBytes }

\* V0 := a; V1 := b; delay_timer := V0; sound_timer := V1; V2 := delay_timer.
TimerValues == {0, 1, 3, 255}

TimerRoms ==
    { Asm(<<LD(0, a), LD(1, b), 61461, 61720, 61959, HALT>>) :
        a \in TimerValues, b \in TimerValues }

\* V0 := v; I := addr; Fx33, for every byte v, into free memory and over
\* the font table.
DigitRoms ==
    { Asm(<<LD(0, v), LDI(addr), 61491, HALT>>) :
        v \in 0..255, addr \in {768, FONT_START} }

\* V0 := 255; V1 := 7; I := the last byte of memory; then Fx33, Fx55 or
\* Fx65 with x = 1, or a draw of two rows.
EdgeRoms ==
    { Asm(<<LD(0, 255), LD(1, 7), LDI(MEMORY_SIZE - 1), op, HALT>>) :
        op \in {61491, 61781, 61797, DRW(0, 1, 2)} }

\* The number of bytes from PROGRAM_START to the end of memory.
Capacity == MEMORY_SIZE - PROGRAM_START

\* A ROM of len bytes: the first two bytes of HALT, then 0xFF to the end.
SizedRom(len) == [i \in 1..len |-> IF i = 1 THEN 31 ELSE 255]

\* ROMs of one byte and of the lengths around Capacity.
SizedRoms == { SizedRom(len) : len \in {1, Capacity - 1, Capacity, Capacity + 1} }

File(bytes) == [readable |-> TRUE, bytes |-> bytes]

Unreadable == [readable |-> FALSE, bytes |-> <<>>]

RomFiles ==
    { File(b) : b \in BinaryRoms \cup ImmediateRoms \cup UnaryRoms
                        \cup StackRoms \cup EndRoms \cup DrawRoms
                        \cup OverdrawRoms \cup {LoopRom} \cup SizedRoms
                        \cup TimerRoms \cup DigitRoms \cup EdgeRoms }
        \cup {Unreadable, File(<<>>)}

\* ------------------------------------------------------------ main

\* state: the struct State.  is_running: main's loop flag.  loop: where main
\* is ("load", "poll", "step", "exit", "failed").  rom: the file behind
\* rom_path, argv[1].  fetched: the pc, the opcode, the sp and the display of
\* the latest call of state_step that fetched an opcode, as they were when it
\* was called (an observer's note, not read by any action).
VARIABLES state, is_running, loop, rom, fetched

vars == <<state, is_running, loop, rom, fetched>>

NoFetch ==
    [pc |-> 0, opcode |-> -1, sp |-> 0, video |-> state_init.video_buffer]

Fetch(s) ==
    IF s.pc >= MEMORY_SIZE - 1 THEN NoFetch
    ELSE [pc |-> s.pc, opcode |-> Opcode(s), sp |-> s.sp,
          video |-> s.video_buffer]

Init ==
    /\ state = state_init
    /\ is_running = TRUE
    /\ loop = "load"
    /\ rom \in RomFiles
    /\ fetched = NoFetch

\* load_rom(state, rom_path); on failure main returns.
LoadRom ==
    /\ loop = "load"
    /\ LET r == load_rom(state, rom)
       IN  /\ state' = r[2]
           /\ loop' = IF r[1] THEN "poll" ELSE "failed"
    /\ UNCHANGED <<is_running, rom, fetched>>

\* case SDL_KEYDOWN
KeyDown ==
    /\ loop = "poll"
    /\ \E sym \in KeyPresses :
          state' = [state EXCEPT !.keycode = get_chip8_keycode_from_sdl(sym)]
    /\ UNCHANGED <<is_running, loop, rom, fetched>>

\* case SDL_KEYUP
KeyUp ==
    /\ loop = "poll"
    /\ state' = [state EXCEPT !.keycode = 16]
    /\ UNCHANGED <<is_running, loop, rom, fetched>>

\* case SDL_QUIT, and the break that follows the event loop.
Quit ==
    /\ loop = "poll"
    /\ is_running' = FALSE
    /\ loop' = "exit"
    /\ UNCHANGED <<state, rom, fetched>>

\* A tick that subtracts 1 from a uint8_t timer without testing it.
timer_tick_unguarded(s) ==
    [s EXCEPT !.delay_timer = U8(@ + 255), !.sound_timer = U8(@ + 255)]

timer_tick(s) ==
    [s EXCEPT !.delay_timer = IF @ > 0 THEN @ - 1 ELSE @,
              !.sound_timer = IF @ > 0 THEN @ - 1 ELSE @]

\* elapsed_time >= FRAME_TIME: both timers count down.
TimerTick ==
    /\ loop = "poll"
    /\ state' = timer_tick(state)
    /\ loop' = "step"
    /\ UNCHANGED <<is_running, rom, fetched>>

\* elapsed_time < FRAME_TIME.
NoTick ==
    /\ loop = "poll"
    /\ loop' = "step"
    /\ UNCHANGED <<state, is_running, rom, fetched>>

\* state_step(state) and the test of end_of_program that follows it.
Step ==
    /\ loop = "step"
    /\ \E rnd \in RandInputs(state), junk \in JunkInputs(state) :
          state' = state_step(state, rnd, junk)
    /\ is_running' = IF state'.end_of_program THEN FALSE ELSE is_running
    /\ loop' = IF state'.end_of_program THEN "exit" ELSE "poll"
    /\ fetched' = Fetch(state)
    /\ UNCHANGED rom

Next == LoadRom \/ KeyDown \/ KeyUp \/ Quit \/ TimerTick \/ NoTick \/ Step

Spec == Init /\ [][Next]_vars

\* ------------------------------------------------------------ properties

\* state_step is about to fetch and execute the opcode Op.
Stepping == loop = "step" /\ state.pc < MEMORY_SIZE - 1

Op == Opcode(state)

\* The registers the opcode names, before the step.
Vx == state.regs_v[nibble2(Op)]

Vy == state.regs_v[nibble3(Op)]

\* memory[0x50..0x9F], the 80 bytes of the font table.
FontTable(s) == [k \in 1..Len(FONTS) |-> Mem(s.memory, FONT_START + k - 1)]

\* C1: one step executing 8xy4 with x # 0xF leaves VF = 1 exactly when the
\* pre-step Vx + Vy >= 256, and VF = 0 otherwise.
C1_CarryFlag ==
    [][ (Stepping /\ nibble1(Op) = 8 /\ nibble4(Op) = 4 /\ nibble2(Op) # 15)
          => state'.regs_v[15] = (IF Vx + Vy >= 256 THEN 1 ELSE 0) ]_vars

\* C2: with x # 0xF, one step executing 8xy5 leaves VF = 1 exactly when the
\* pre-step Vx >= Vy (else 0), and one step executing 8xy7 leaves VF = 1
\* exactly when the pre-step Vy >= Vx (else 0).
C2_NoBorrowFlag ==
    [][ (Stepping /\ nibble1(Op) = 8 /\ nibble2(Op) # 15)
          => /\ nibble4(Op) = 5 => state'.regs_v[15] = (IF Vx >= Vy THEN 1 ELSE 0)
             /\ nibble4(Op) = 7 => state'.regs_v[15] = (IF Vy >= Vx THEN 1 ELSE 0) ]_vars

\* The row bits a sprite byte covers when its most significant bit sits at
\* column start_x, column c being bit 63 - c, and the bits that would fall
\* right of column 63 are dropped.
PlacedAtColumn(byte, start_x) ==
    { 63 - (start_x + k) : k \in { j \in 0..7 : (7 - j) \in Bits8(byte) /\ start_x + j <= 63 } }

\* C3: Dxyn places the first sprite byte with its most significant bit at
\* column Vx mod 64 and the following bits to the right of it, dropping the
\* bits past column 63: the row Vy mod 32 is XORed with exactly those bits
\* (with Vx = 60 the 4 high bits at columns 60..63).
C3_SpritePlacement ==
    [][ (Stepping /\ nibble1(Op) = 13 /\ nibble4(Op) >= 1
            /\ state.reg_i < MEMORY_SIZE)
          => state'.video_buffer[Vy % 32]
               = Xor64(state.video_buffer[Vy % 32],
                       PlacedAtColumn(Mem(state.memory, state.reg_i), Vx % 64)) ]_vars

\* C4: a return that would take sp below STACK_START, or a call that would
\* take it past the start of the program, stops the machine (main's loop
\* ends) and neither writes memory nor takes a return address from it.
C4_StackFaultHalts ==
    [][ (Stepping /\ (\/ Op = RET /\ state.sp - 2 < STACK_START
                      \/ nibble1(Op) = 2 /\ state.sp + 2 > PROGRAM_START))
          => (~is_running' /\ state'.memory = state.memory
                /\ state'.pc = state.pc) ]_vars

\* C5: a step that executes anything but a store (Fx33, Fx55), a call or a
\* return among them, leaves the 80 bytes of the font table as they were.
C5_FontTableReadOnly ==
    [][ (Stepping /\ ~(nibble1(Op) = 15 /\ imm_nn(Op) \in {51, 85}))
          => FontTable(state') = FontTable(state) ]_vars

\* C6: a step taken with pc >= 4095 leaves end_of_program true.
C6_EndOfProgramSignalled ==
    [][ (loop = "step" /\ state.pc >= MEMORY_SIZE - 1)
          => state'.end_of_program ]_vars

\* C7: for Vx in 0..15 and the font table as initialized, Fx29 sets I to
\* FONT_START + Vx and memory[I..I+5) holds the 5 glyph bytes of digit Vx.
C7_FontGlyphSelected ==
    [][ (Stepping /\ nibble1(Op) = 15 /\ imm_nn(Op) = 41 /\ Vx \in 0..15
            /\ FontTable(state) = FONTS)
          => /\ state'.reg_i = FONT_START + Vx
             /\ \A k \in 0..4 :
                   Mem(state'.memory, state'.reg_i + k) = FONTS[5 * Vx + k + 1] ]_vars

\* The six skip instructions and the condition each one tests.
IsSkip(opcode) ==
    \/ nibble1(opcode) \in {3, 4}
    \/ nibble1(opcode) \in {5, 9} /\ nibble4(opcode) = 0
    \/ nibble1(opcode) = 14 /\ imm_nn(opcode) \in {158, 161}

SkipCondition ==
    CASE nibble1(Op) = 3 -> Vx = imm_nn(Op)
      [] nibble1(Op) = 4 -> Vx # imm_nn(Op)
      [] nibble1(Op) = 5 -> Vx = Vy
      [] nibble1(Op) = 9 -> Vx # Vy
      [] nibble1(Op) = 14 /\ imm_nn(Op) = 158 -> state.keycode = Vx
      [] nibble1(Op) = 14 /\ imm_nn(Op) = 161 -> state.keycode # Vx
      [] OTHER -> FALSE

\* C8: each skip instruction advances pc by exactly 4 when its condition
\* holds and by exactly 2 otherwise, and changes nothing else of the state.
C8_SkipAdvance ==
    [][ (Stepping /\ IsSkip(Op))
          => state' = [state EXCEPT
                          !.pc = state.pc + (IF SkipCondition THEN 4 ELSE 2)] ]_vars

\* A key skip (Ex9E) has just been taken: the latch held the key in Vx.
C8_SkipTaken ==
    /\ loop = "poll"
    /\ nibble1(fetched.opcode) = 14 /\ imm_nn(fetched.opcode) = 158
    /\ state.pc = fetched.pc + 4
    /\ state.regs_v[nibble2(fetched.opcode)] = 15

\* C9: a step executing Fx0A while the latch holds 16 changes nothing (so the
\* next step executes it again); with the latch holding a key k in 0..15 it
\* sets Vx to k and advances pc by exactly 2.
C9_WaitForKey ==
    [][ (Stepping /\ nibble1(Op) = 15 /\ imm_nn(Op) = 10)
          => IF state.keycode = NO_KEY THEN state' = state
             ELSE /\ state.keycode \in 0..15
                  /\ state' = [state EXCEPT !.regs_v[nibble2(Op)] = state.keycode,
                                            !.pc = state.pc + 2] ]_vars

\* Fx0A has just delivered key 15 into a register that held another value
\* when the program loaded it.
C9_KeyDelivered ==
    /\ loop = "poll"
    /\ nibble1(fetched.opcode) = 15 /\ imm_nn(fetched.opcode) = 10
    /\ state.pc = fetched.pc + 2
    /\ state.regs_v[nibble2(fetched.opcode)] = 15
    /\ Mem(state.memory, PROGRAM_START + 1) = 0

\* The 16-bit addresses pushed when the round trip is tried.
ReturnAddresses == {1, 256, 514, 4095, 65535}

RoundTrip ==
    \A A \in ReturnAddresses :
        state.sp + 1 < MEMORY_SIZE =>
            LET p == state_pop_from_stack(state_push_to_stack(state, A), 0)
            IN  p[2] = A /\ p[1].sp = state.sp

CallThenReturn ==
    (Stepping /\ Op = RET /\ nibble1(fetched.opcode) = 2
        /\ imm_nnn(fetched.opcode) = state.pc /\ fetched.sp + 1 < MEMORY_SIZE)
      => (state'.pc = fetched.pc + 2 /\ state'.sp = fetched.sp)

\* C10: in every state whose sp leaves room for one entry, pushing an address
\* and popping at once returns the address and the sp; and a 2nnn at p
\* followed by a 00EE at nnn leaves pc = p + 2 and sp as before the call.
C10_PushPopRoundTrip == []RoundTrip /\ [][CallThenReturn]_vars

\* A 00EE has just returned to the instruction after the first call.
C10_Returned ==
    /\ loop = "poll"
    /\ fetched.opcode = RET /\ fetched.sp = STACK_START + 2
    /\ state.pc = At(2) /\ state.sp = STACK_START

\* The display with every pixel off.
Blank == [y \in 0..(VIDEO_ROWS - 1) |-> {}]

IsDraw(opcode) == nibble1(opcode) = 13

\* state_step is about to execute a one-row Dxy1 for the second time in a
\* row: the step before fetched the same opcode from the two bytes before pc,
\* and neither coordinate register is VF, which the first draw has written.
SecondSingleRowDraw ==
    /\ Stepping /\ IsDraw(Op) /\ nibble4(Op) = 1
    /\ fetched.opcode = Op /\ fetched.pc + 2 = state.pc
    /\ nibble2(Op) # 15 /\ nibble3(Op) # 15
    /\ state.reg_i < MEMORY_SIZE

\* C11: drawing the same one-row sprite twice at the same position, with no
\* draw in between, leaves the display as it was before the first draw, and
\* VF is 1 after the second draw whenever the first draw turned a pixel on.
C11_DrawTwiceRestores ==
    [][ SecondSingleRowDraw
          => /\ state'.video_buffer = fetched.video
             /\ (state.video_buffer[Vy % 32] \ fetched.video[Vy % 32]) # {}
                   => state'.regs_v[15] = 1 ]_vars

\* The second of two one-row draws has just erased what the first drew over
\* an earlier sprite, which is on the display again.
C11_DrawnTwice ==
    /\ loop = "poll"
    /\ IsDraw(fetched.opcode) /\ nibble4(fetched.opcode) = 1
    /\ state.pc = fetched.pc + 2
    /\ Mem(state.memory, fetched.pc - 2) * 256
          + Mem(state.memory, fetched.pc - 1) = fetched.opcode
    /\ fetched.video # state.video_buffer
    /\ state.video_buffer # Blank
    /\ state.regs_v[15] = 1

\* The program 60 05 12 00 was loaded, and its two instructions have just
\* executed for the first time since: the jump was fetched from 0x202.
LoopRomRanOnce ==
    /\ rom = File(LoopRom)
    /\ loop = "step"
    /\ fetched.opcode = JP(At(1)) /\ fetched.pc = At(2)

\* C12 as stated: after the two instructions of 60 05 12 00 have executed
\* V0 = 5 and pc = 0x200, and after one more step pc is still 0x200 and V0
\* is still 5.
C12_SelfLoop ==
    [][ LoopRomRanOnce
          => /\ state.regs_v[0] = 5 /\ state.pc = PROGRAM_START
             /\ state'.regs_v[0] = 5 /\ state'.pc = PROGRAM_START ]_vars

\* C12 amended: after the two instructions of 60 05 12 00 have executed
\* V0 = 5 and pc = 0x200; the next step executes the 60 05 at 0x200 again,
\* leaving V0 = 5 and pc = 0x202, and changes nothing else.
C12_LoopBackToStart ==
    [][ LoopRomRanOnce
          => /\ state.regs_v[0] = 5 /\ state.pc = PROGRAM_START
             /\ state' = [state EXCEPT !.pc = PROGRAM_START + 2] ]_vars

\* The two instructions have executed and the next step is about to fetch
\* the 60 05 at 0x200 again.
C12_LoopedOnce ==
    /\ LoopRomRanOnce
    /\ state.regs_v[0] = 5 /\ state.pc = PROGRAM_START
    /\ Opcode(state) = LD(0, 5)

\* The values of nn that case 0xF of state_step handles.
MiscCodes == {7, 10, 21, 24, 30, 41, 51, 85, 101}

\* The opcodes no case of state_step handles.
IsUnknown(opcode) ==
    \/ nibble1(opcode) = 0 /\ opcode \notin {CLS, RET}
    \/ nibble1(opcode) = 8 /\ nibble4(opcode) \notin (0..7) \cup {14}
    \/ nibble1(opcode) = 14 /\ imm_nn(opcode) \notin {158, 161}
    \/ nibble1(opcode) = 15 /\ imm_nn(opcode) \notin MiscCodes
    \/ nibble1(opcode) = 11

\* C13: a step that executes an opcode the interpreter does not handle (0nnn
\* other than 00E0 and 00EE, 8xyN with N not in 0..7 or E, Exnn other than
\* Ex9E and ExA1, Fxnn with an unlisted nn, the family Bnnn) adds exactly 2 to
\* pc and changes nothing else: registers, I, sp, memory, timers, key, display.
C13_UnknownOpcodeNoOp ==
    [][ (Stepping /\ IsUnknown(Op))
          => state' = [state EXCEPT !.pc = state.pc + 2] ]_vars

\* An unhandled Bnnn has just been stepped over with a key held down and a
\* register loaded.
C13_UnknownSkipped ==
    /\ loop = "poll"
    /\ nibble1(fetched.opcode) = 11
    /\ state.pc = fetched.pc + 2
    /\ state.regs_v[nibble2(fetched.opcode)] = 255
    /\ state.keycode = 1

\* C14: the load is rejected exactly when the file cannot be read, is empty
\* or is longer than the 3584 bytes from 0x200 to the end of memory; every
\* ROM of 1..3584 bytes is accepted and copied to memory[0x200 .. 0x200+len),
\* every other byte of memory staying as it was.
C14_RomLoadBounds ==
    [][ loop = "load"
          => LET len == Len(rom.bytes)
                 rejected == ~rom.readable \/ len = 0 \/ len > Capacity
                 dst == PROGRAM_START..(PROGRAM_START + len - 1)
             IN  /\ (loop' = "failed") <=> rejected
                 /\ ~rejected =>
                       \A a \in 0..(MEMORY_SIZE - 1) :
                           Mem(state'.memory, a)
                             = IF a \in dst THEN rom.bytes[a - PROGRAM_START + 1]
                               ELSE Mem(state.memory, a) ]_vars

\* A timer after one tick.
Ticked(timer) == IF timer > 0 THEN timer - 1 ELSE 0

\* C15: a tick lowers each timer that is not 0 by exactly 1 and leaves a timer
\* that is 0 at 0; a step of the executor sets delay_timer to Vx when it
\* executes Fx15 and sound_timer to Vx when it executes Fx18, and changes
\* neither timer otherwise; nothing else changes a timer.
C15_TimersCountDown ==
    [][ /\ (loop = "poll" /\ loop' = "step")
            => \/ state' = state
               \/ state' = [state EXCEPT !.delay_timer = Ticked(@),
                                          !.sound_timer = Ticked(@)]
        /\ (loop = "step")
            => /\ state'.delay_timer
                    = IF Stepping /\ nibble1(Op) = 15 /\ imm_nn(Op) = 21
                      THEN Vx ELSE state.delay_timer
               /\ state'.sound_timer
                    = IF Stepping /\ nibble1(Op) = 15 /\ imm_nn(Op) = 24
                      THEN Vx ELSE state.sound_timer
        /\ ~(loop = "step" \/ (loop = "poll" /\ loop' = "step"))
            => /\ state'.delay_timer = state.delay_timer
               /\ state'.sound_timer = state.sound_timer ]_vars

\* F015 set delay_timer to 3 and F118 set sound_timer to 1; two ticks later
\* delay_timer is 1 and sound_timer, 0 after the first, is still 0.
C15_TickedTwice ==
    /\ loop = "step"
    /\ fetched.opcode = 61959
    /\ state.regs_v[0] = 3 /\ state.regs_v[1] = 1
    /\ state.regs_v[2] = 2
    /\ state.delay_timer = 1 /\ state.sound_timer = 0

\* C16: with x # 0xF, one step executing 7xnn leaves Vx = (Vx + nn) mod 256
\* and VF as it was; 8xy4 leaves Vx = (Vx + Vy) mod 256, 8xy5 leaves
\* Vx = (Vx - Vy) mod 256 and 8xy7 leaves Vx = (Vy - Vx) mod 256, of the
\* values before the step.
C16_ArithmeticWraps ==
    [][ (Stepping /\ nibble2(Op) # 15)
          => LET x == nibble2(Op) IN
             /\ nibble1(Op) = 7
                   => /\ state'.regs_v[x] = (Vx + imm_nn(Op)) % 256
                      /\ state'.regs_v[15] = state.regs_v[15]
             /\ (nibble1(Op) = 8 /\ nibble4(Op) = 4)
                   => state'.regs_v[x] = (Vx + Vy) % 256
             /\ (nibble1(Op) = 8 /\ nibble4(Op) = 5)
                   => state'.regs_v[x] = (Vx - Vy + 256) % 256
             /\ (nibble1(Op) = 8 /\ nibble4(Op) = 7)
                   => state'.regs_v[x] = (Vy - Vx + 256) % 256 ]_vars

IsDigits(opcode) == nibble1(opcode) = 15 /\ imm_nn(opcode) = 51

\* C17: one step executing Fx33 with Vx = v and I, I + 1, I + 2 inside memory
\* leaves memory[I] = v / 100, memory[I + 1] = (v / 10) mod 10 and
\* memory[I + 2] = v mod 10, three digits with 100 a + 10 b + c = v, and
\* changes no other byte of memory and nothing else but pc.
C17_DecimalDigits ==
    [][ (Stepping /\ IsDigits(Op) /\ state.reg_i + 2 < MEMORY_SIZE)
          => LET i == state.reg_i
                 a == Mem(state'.memory, i)
                 b == Mem(state'.memory, i + 1)
                 c == Mem(state'.memory, i + 2)
             IN  /\ a = Vx \div 100
                 /\ b = (Vx \div 10) % 10
                 /\ c = Vx % 10
                 /\ {a, b, c} \subseteq 0..9
                 /\ 100 * a + 10 * b + c = Vx
                 /\ \A m \in (0..(MEMORY_SIZE - 1)) \ {i, i + 1, i + 2} :
                        Mem(state'.memory, m) = Mem(state.memory, m)
                 /\ state' = [state EXCEPT !.memory = state'.memory,
                                            !.pc = state.pc + 2] ]_vars

\* F033 has just written the digits 2, 5, 5 of V0 = 255 over the first three
\* bytes of the font table.
C17_DigitsWritten ==
    /\ loop = "poll"
    /\ IsDigits(fetched.opcode)
    /\ state.regs_v[0] = 255
    /\ state.reg_i = FONT_START
    /\ Mem(state.memory, FONT_START) = 2
    /\ Mem(state.memory, FONT_START + 1) = 5
    /\ Mem(state.memory, FONT_START + 2) = 5

\* C18: only 00E0 and Dxyn change the display: every transition other than a
\* step executing Dxyn leaves the 32 rows as they were, except a step
\* executing 00E0, after which every pixel is off; so after a 00E0 the pixels
\* stay off until a Dxyn executes.
C18_DisplayFrame ==
    [][ ~(Stepping /\ IsDraw(Op))
          => state'.video_buffer
               = IF Stepping /\ Op = CLS THEN Blank ELSE state.video_buffer ]_vars

\* A 00E0 has just cleared a display that had pixels on in its last row.
C18_Cleared ==
    /\ loop = "poll"
    /\ fetched.opcode = CLS
    /\ fetched.video[VIDEO_ROWS - 1] # {}
    /\ state.video_buffer = Blank

\* The bits of a display row that the step has changed.
Flipped(r) == Xor64(state'.video_buffer[r], state.video_buffer[r])

\* C19: with start_row = Vy mod 32, one step executing Dxyn with the n sprite
\* bytes inside memory changes only the rows r with
\* start_row <= r < min(start_row + n, 32), never a row above start_row, and
\* what it changes in row r is the bits of the byte memory[I + r - start_row],
\* all rows shifted alike (the most significant bit at column Vx mod 64 or,
\* as the code places it, one column further right); with n = 0 no row
\* changes and VF is left 0.
C19_DrawClipsRows ==
    [][ (Stepping /\ IsDraw(Op) /\ state.reg_i + nibble4(Op) <= MEMORY_SIZE)
          => LET start_row == Vy % 32
                 n == nibble4(Op)
                 end_row == IF start_row + n < 32 THEN start_row + n ELSE 32
                 rows == start_row..(end_row - 1)
             IN  /\ \A r \in (0..(VIDEO_ROWS - 1)) \ rows : Flipped(r) = {}
                 /\ \E d \in {56 - (Vx % 64), 55 - (Vx % 64)} :
                       \A r \in rows :
                           Flipped(r)
                             = Shl64(Bits8(Mem(state.memory,
                                               state.reg_i + r - start_row)), d)
                 /\ n = 0 => /\ state'.video_buffer = state.video_buffer
                             /\ state'.regs_v[15] = 0 ]_vars

\* A two-row sprite has just been drawn at start row 31: row 31 shows its
\* first byte and row 0, where its second byte would wrap to, is empty.
C19_ClippedAtBottom ==
    /\ loop = "poll"
    /\ IsDraw(fetched.opcode) /\ nibble4(fetched.opcode) = 2
    /\ state.regs_v[nibble3(fetched.opcode)] % 32 = 31
    /\ fetched.video = Blank
    /\ state.video_buffer[31] # {}
    /\ state.video_buffer[0] = {}
    /\ Mem(state.memory, state.reg_i + 1) # 0

\* C20: in every reachable state, every byte of memory that the next step
\* reads or writes (the opcode at pc and pc + 1, the sprite rows at I + row,
\* I .. I + 2 of Fx33, I .. I + x of Fx55 and Fx65, sp and sp + 1 of a push
\* or a pop) has an address in 0 .. 4095.
C20_MemorySafety ==
    loop = "step" => accesses(state) \subseteq 0..(MEMORY_SIZE - 1)

====
